---- MODULE Spec2Model ----
(***************************************************************************)
(* Model of src/app1.py: a Streamlit stock-control script whose only       *)
(* persistent state is one Excel workbook on Dropbox.  Every script run    *)
(* downloads the workbook, decodes it into two tables (df = stock,         *)
(* hist = history), optionally applies one ENTRADA/SAIDA movement and      *)
(* overwrites the remote workbook with the re-encoded tables.              *)
(*                                                                         *)
(* Text is modelled as a sequence of one-character strings so that         *)
(* str.strip() and sort_values("Item") are computed, not assumed.  A       *)
(* workbook cell is a record [k, n, s]: k = "int" (number n), "str"       *)
(* (text s) or "blank" (empty cell, read by pandas as NaN).                *)
(***************************************************************************)
EXTENDS Integers, Sequences, FiniteSets, TLC

\* ------------------------------------------------------------------ bounds
\* Largest number of records a session working alone may add to the history
\* the system starts with.
MaxApp == 2
\* The same, for each of two sessions working at the same time.
MaxAppRace == 1
\* Largest quantity the number_input is driven to.
MaxQtd == 2
\* Largest balance an ENTRADA may reach (caps the unbounded stock counter).
MaxEstoque == 3
\* Latest minute datetime.now() returns (minutes after the start) to a
\* session working alone; two sessions at the same time work within minute 0.
MaxClock == 1

\* number_input(min_value=1): the smallest quantity the form can submit.
MinQtd == 1

Sessions == {"s1", "s2"}

\* --------------------------------------------------------------- text
SP == " "

\* Characters in ASCII order, used by string comparison.
CharOrd == <<" ", "0", "1", "2", "3", "B", "N", "a", "n">>

Rank(c) == CHOOSE i \in 1..Len(CharOrd) : CharOrd[i] = c

\* Python's str <= str: lexicographic by code point.
RECURSIVE StrLeq(_, _)
StrLeq(a, b) ==
    IF a = <<>> THEN TRUE
    ELSE IF b = <<>> THEN FALSE
    ELSE IF Head(a) = Head(b) THEN StrLeq(Tail(a), Tail(b))
    ELSE Rank(Head(a)) < Rank(Head(b))

RECURSIVE LStrip(_)
LStrip(s) == IF s # <<>> /\ Head(s) = SP THEN LStrip(Tail(s)) ELSE s

RECURSIVE RStrip(_)
RStrip(s) ==
    IF s # <<>> /\ s[Len(s)] = SP THEN RStrip(SubSeq(s, 1, Len(s) - 1)) ELSE s

\* str.strip()
Strip(s) == RStrip(LStrip(s))

\* Movimento texts that occur in workbooks; .str.strip().str.upper() on them.
MovTexts == {"ENTRADA", "SAIDA", "entrada", " saida ", "AJUSTE", ""}

StripUpper(m) ==
    CASE m = "entrada" -> "ENTRADA"
      [] m = " saida " -> "SAIDA"
      [] OTHER -> m

\* --------------------------------------------------------------- cells
IntCell(n) == [k |-> "int", n |-> n, s |-> <<>>]
StrCell(s) == [k |-> "str", n |-> 0, s |-> s]
Blank == [k |-> "blank", n |-> 0, s |-> <<>>]

\* to_excel / read_excel of a text value: an empty string comes back as NaN.
TextCell(s) == IF s = <<>> THEN Blank ELSE StrCell(s)

NaNText == <<"n", "a", "n">>

\* Series.astype(str) on a stock Item cell: NaN becomes the text "nan".
AsTypeStr(c) == IF c.k = "str" THEN c.s ELSE NaNText

\* Series.fillna("").astype(str) on a history text cell.
FillnaStr(c) == IF c.k = "str" THEN c.s ELSE <<>>

\* pd.to_numeric(errors="coerce").fillna(0).astype(int): text cells of the
\* model hold no digits, so every non-number is coerced to 0.
ToNumericInt(c) == IF c.k = "int" THEN c.n ELSE 0

\* --------------------------------------------------------------- codec
ABA_ESTOQUE == "Estoque"
ABA_HIST == "Historico"

HistCols == {"Data", "Usuario", "Item", "Movimento", "Quantidade", "Estoque_Apos"}

\* Columns of the history sheet missing from the workbook are backfilled
\* with None before the fixed column set is selected.
HistCell(file, r, c) == IF c \in file.histcols THEN r[c] ELSE Blank

HistMov(file, r) == IF "Movimento" \in file.histcols THEN r.Movimento ELSE ""

\* One row of the Estoque sheet after the two coercions.
StockRow(r) ==
    [Item |-> Strip(AsTypeStr(r.Item)), Quantidade |-> ToNumericInt(r.Quantidade)]

\* One row of the Historico sheet after backfilling and normalisation.
HistRow(file, r) ==
    [Data |-> FillnaStr(HistCell(file, r, "Data")),
     Usuario |-> Strip(FillnaStr(HistCell(file, r, "Usuario"))),
     Item |-> Strip(FillnaStr(HistCell(file, r, "Item"))),
     Movimento |-> StripUpper(HistMov(file, r)),
     Quantidade |-> ToNumericInt(HistCell(file, r, "Quantidade")),
     Estoque_Apos |-> ToNumericInt(HistCell(file, r, "Estoque_Apos"))]

\* Whether ler_dados raises ValueError on the workbook.
FormatError(file) ==
    \/ ABA_ESTOQUE \notin file.sheets
    \/ "Item" \notin file.cols
    \/ "Quantidade" \notin file.cols

\* ler_dados: the two tables decoded from a workbook that has no FormatError.
ler_dados(file) ==
    [df |-> [i \in 1..Len(file.estoque) |-> StockRow(file.estoque[i])],
     hist |-> IF ABA_HIST \in file.sheets
              THEN [i \in 1..Len(file.historico) |-> HistRow(file, file.historico[i])]
              ELSE <<>>]

\* Insertion of a row after every row whose Item is <= its Item (stable).
RECURSIVE InsertByItem(_, _)
InsertByItem(row, rows) ==
    IF rows = <<>> THEN <<row>>
    ELSE IF StrLeq(Head(rows).Item, row.Item)
         THEN <<Head(rows)>> \o InsertByItem(row, Tail(rows))
         ELSE <<row>> \o rows

\* df.sort_values("Item")
RECURSIVE SortByItem(_)
SortByItem(rows) ==
    IF rows = <<>> THEN <<>>
    ELSE InsertByItem(rows[Len(rows)], SortByItem(SubSeq(rows, 1, Len(rows) - 1)))

\* gerar_excel_bytes: a workbook with both sheets, stock sorted by Item and
\* the history in its existing order.
gerar_excel_bytes(df, hist) ==
    LET sorted == SortByItem(df) IN
    [sheets |-> {ABA_ESTOQUE, ABA_HIST},
     cols |-> {"Item", "Quantidade"},
     estoque |-> [i \in 1..Len(sorted) |->
                    [Item |-> TextCell(sorted[i].Item),
                     Quantidade |-> IntCell(sorted[i].Quantidade)]],
     histcols |-> HistCols,
     historico |-> [i \in 1..Len(hist) |->
                    [Data |-> TextCell(hist[i].Data),
                     Usuario |-> TextCell(hist[i].Usuario),
                     Item |-> TextCell(hist[i].Item),
                     Movimento |-> hist[i].Movimento,
                     Quantidade |-> IntCell(hist[i].Quantidade),
                     Estoque_Apos |-> IntCell(hist[i].Estoque_Apos)]]]

\* ------------------------------------------------------------- rules
\* A variant of registrar_movimento that puts the new record first.
registrar_movimento_first(hist, data, usuario, item, movimento, qtd, estoque_apos) ==
    <<[Data |-> data, Usuario |-> usuario, Item |-> item, Movimento |-> movimento,
       Quantidade |-> qtd, Estoque_Apos |-> estoque_apos]>> \o hist

\* registrar_movimento: pd.concat([hist, one row]) with the current time.
registrar_movimento(hist, data, usuario, item, movimento, qtd, estoque_apos) ==
    Append(hist,
           [Data |-> data, Usuario |-> usuario, Item |-> item, Movimento |-> movimento,
            Quantidade |-> qtd, Estoque_Apos |-> estoque_apos])

\* Indices of the rows selected by df["Item"] == item.
Matching(df, item) == {i \in 1..Len(df) : df[i].Item = item}

\* int(df.loc[df["Item"] == item, "Quantidade"].iloc[0]): the first match.
Atual(df, item) ==
    LET m == Matching(df, item) IN
    df[CHOOSE i \in m : \A j \in m : i <= j].Quantidade

\* An assignment that writes to a copy and leaves df as it was.
SetQuantidadeNenhuma(df, item, novo) == df

\* df.loc[df["Item"] == item, "Quantidade"] = novo: every matching row.
SetQuantidade(df, item, novo) ==
    [i \in 1..Len(df) |-> IF df[i].Item = item
                          THEN [df[i] EXCEPT !.Quantidade = novo]
                          ELSE df[i]]

\* df["Item"].tolist(): the options of the item selectbox.
ItemOptions(df) == {df[i].Item : i \in 1..Len(df)}

\* datetime.now().strftime(...): the clock minute rendered as text.
Strftime(t) == <<CharOrd[t + 2]>>

\* ------------------------------------------------------- workbooks at start
B == <<"B">>
N == <<"N">>

StockSheet(rows) ==
    [sheets |-> {ABA_ESTOQUE, ABA_HIST}, cols |-> {"Item", "Quantidade"},
     estoque |-> rows, histcols |-> HistCols, historico |-> <<>>]

\* A well-formed workbook: one item, empty history sheet.
FileOne == StockSheet(<<[Item |-> StrCell(B), Quantidade |-> IntCell(2)]>>)

\* Two items, rows not sorted, no Historico sheet.
FileNoHist ==
    [StockSheet(<<[Item |-> StrCell(N), Quantidade |-> IntCell(1)],
                  [Item |-> StrCell(B), Quantidade |-> IntCell(1)]>>)
       EXCEPT !.sheets = {ABA_ESTOQUE}, !.histcols = {}]

\* Two rows whose Item differs only by surrounding blanks.
FileDup ==
    StockSheet(<<[Item |-> StrCell(B), Quantidade |-> IntCell(2)],
                 [Item |-> StrCell(<<" ", "B">>), Quantidade |-> IntCell(0)]>>)

\* A negative quantity.
FileNeg == StockSheet(<<[Item |-> StrCell(B), Quantidade |-> IntCell(-2)]>>)

\* A quantity that is not a number, and a history written by hand: no
\* Usuario column, untrimmed item, lower-case movement kind, empty balance.
FileHist ==
    [StockSheet(<<[Item |-> StrCell(B), Quantidade |-> StrCell(<<"a">>)]>>)
       EXCEPT !.histcols = HistCols \ {"Usuario"},
              !.historico = <<[Data |-> StrCell(<<"0">>), Usuario |-> Blank,
                               Item |-> StrCell(<<" ", "B">>), Movimento |-> "entrada",
                               Quantidade |-> IntCell(1), Estoque_Apos |-> Blank]>>]

\* No Estoque sheet.
FileNoSheet == [FileOne EXCEPT !.sheets = {ABA_HIST}]

\* Estoque sheet without the Quantidade column.
FileNoCol == [FileOne EXCEPT !.cols = {"Item"}]

\* Estoque sheet with the two columns and no rows.
FileEmpty == StockSheet(<<>>)

InitFiles ==
    {FileOne, FileNoHist, FileDup, FileNeg, FileHist, FileNoSheet, FileNoCol, FileEmpty}

\* The workbooks on which two browser sessions work at the same time; on
\* the others one session works alone.
RaceFiles == {FileOne}

\* What original_bytes holds before any download.
NoFile ==
    [sheets |-> {}, cols |-> {}, estoque |-> <<>>, histcols |-> {}, historico |-> <<>>]

\* Texts typed into the operator-name field.
Names == {<<>>, <<" ">>, <<" ", "a">>}

Movimentos == {"ENTRADA", "SAIDA"}

\* ------------------------------------------------------------- state
VARIABLES
    remote,          \* the workbook stored at DROPBOX_FILE_PATH
    base,            \* the workbook stored there when the system starts
    pc,              \* per session: where its script run stands
    original_bytes,  \* per session: the workbook it downloaded
    df,              \* per session: the stock table
    hist,            \* per session: the history table
    usuario,         \* per session: st.session_state["usuario"]
    msg,             \* per session: what the run reported, [kind, atual]
    uploads          \* per session: calls of upload_overwrite in this run

vars == <<remote, base, pc, original_bytes, df, hist, usuario, msg, uploads>>

Msg(kind) == [kind |-> kind, atual |-> 0]

\* Number of history records of the workbook the system starts with.
BaseLen == IF FormatError(base) THEN 0 ELSE Len(ler_dados(base).hist)

Init ==
    /\ remote \in InitFiles
    /\ base = remote
    /\ pc = [s \in Sessions |-> "start"]
    /\ original_bytes = [s \in Sessions |-> NoFile]
    /\ df = [s \in Sessions |-> <<>>]
    /\ hist = [s \in Sessions |-> <<>>]
    /\ usuario = [s \in Sessions |-> <<>>]
    /\ msg = [s \in Sessions |-> Msg("none")]
    /\ uploads = [s \in Sessions |-> 0]

\* The browser sessions open on the workbook.
Active == IF base \in RaceFiles THEN Sessions ELSE {"s1"}

\* Number of records a session may add before the model stops it.
AppLimit == IF base \in RaceFiles THEN MaxAppRace ELSE MaxApp

\* Minutes datetime.now() may return.
Minutes == IF base \in RaceFiles THEN {0} ELSE 0..MaxClock

\* A script run starts when the previous one has ended.
CanRun(s) == s \in Active /\ pc[s] \in {"start", "done", "halted", "rerun"}

\* A failed start that goes on with empty tables instead of stopping.
CarregarFalhaContinua(s, net) ==
    /\ CanRun(s)
    /\ ~net \/ FormatError(remote)
    /\ pc' = [pc EXCEPT ![s] = "loaded"]
    /\ original_bytes' = [original_bytes EXCEPT ![s] = IF net THEN remote ELSE NoFile]
    /\ df' = [df EXCEPT ![s] = <<[Item |-> B, Quantidade |-> 0]>>]
    /\ hist' = [hist EXCEPT ![s] = <<>>]
    /\ msg' = [msg EXCEPT ![s] = Msg("err_open")]
    /\ uploads' = [uploads EXCEPT ![s] = 0]
    /\ UNCHANGED <<remote, base, usuario>>

\* Lines 157-163, failure: the download raises (net = FALSE) or ler_dados
\* raises ValueError; st.error, st.exception, st.stop().
CarregarFalha(s, net) ==
    /\ CanRun(s)
    /\ ~net \/ FormatError(remote)
    /\ pc' = [pc EXCEPT ![s] = "halted"]
    /\ original_bytes' = [original_bytes EXCEPT ![s] = IF net THEN remote ELSE NoFile]
    /\ df' = [df EXCEPT ![s] = <<>>]
    /\ hist' = [hist EXCEPT ![s] = <<>>]
    /\ msg' = [msg EXCEPT ![s] = Msg("err_open")]
    /\ uploads' = [uploads EXCEPT ![s] = 0]
    /\ UNCHANGED <<remote, base, usuario>>

\* Lines 150-192, success: download, decode, and the sidebar stores the
\* typed name u in the session state.
CarregarOk(s, u) ==
    /\ CanRun(s)
    /\ ~FormatError(remote)
    /\ pc' = [pc EXCEPT ![s] = "loaded"]
    /\ original_bytes' = [original_bytes EXCEPT ![s] = remote]
    /\ df' = [df EXCEPT ![s] = ler_dados(remote).df]
    /\ hist' = [hist EXCEPT ![s] = ler_dados(remote).hist]
    /\ usuario' = [usuario EXCEPT ![s] = u]
    /\ msg' = [msg EXCEPT ![s] = Msg("none")]
    /\ uploads' = [uploads EXCEPT ![s] = 0]
    /\ UNCHANGED <<remote, base>>

\* Lines 217-238 when the button was not pressed: the dashboard is drawn
\* (line 220 raises IndexError on an empty stock table).
Renderizar(s) ==
    /\ pc[s] = "loaded"
    /\ pc' = [pc EXCEPT ![s] = "done"]
    /\ msg' = [msg EXCEPT ![s] = IF df[s] = <<>> THEN Msg("crash") ELSE msg[s]]
    /\ UNCHANGED <<remote, base, original_bytes, df, hist, usuario, uploads>>

\* Lines 194-199 on an empty stock table: item_sel is None; the name check
\* comes first, then .iloc[0] raises IndexError.
AplicarVazio(s) ==
    /\ pc[s] = "loaded"
    /\ df[s] = <<>>
    /\ pc' = [pc EXCEPT ![s] = "done"]
    /\ msg' = [msg EXCEPT ![s] =
                 IF Strip(usuario[s]) = <<>> THEN Msg("err_nome") ELSE Msg("crash")]
    /\ UNCHANGED <<remote, base, original_bytes, df, hist, usuario, uploads>>

\* A name check that accepts a name made of blanks only.
NomeVazioSemStrip(u) == u = <<>>

\* Lines 195-196: usuario = (session_state["usuario"] or "").strip(); not usuario.
NomeVazio(u) == Strip(u) = <<>>

\* An insufficient-stock check that also rejects the boundary qtd = atual.
InsuficienteEstrito(movimento, qtd, atual) == movimento = "SAIDA" /\ qtd >= atual

\* An insufficient-stock check that is never true.
InsuficienteNunca(movimento, qtd, atual) == FALSE

\* Line 201: movimento == "SAIDA" and qtd > atual.
Insuficiente(movimento, qtd, atual) == movimento = "SAIDA" /\ qtd > atual

\* A balance computed with the two directions swapped.
NovoTrocado(movimento, qtd, atual) ==
    IF movimento = "ENTRADA" THEN atual - qtd ELSE atual + qtd

\* Line 204: novo = atual + qtd if movimento == "ENTRADA" else atual - qtd.
Novo(movimento, qtd, atual) ==
    IF movimento = "ENTRADA" THEN atual + qtd ELSE atual - qtd

\* An upload that keeps the stored history and adds the new record to it.
upload_merge(novo_excel, stored) ==
    IF novo_excel.historico = <<>> THEN novo_excel
    ELSE [novo_excel EXCEPT !.historico =
            Append(stored.historico, novo_excel.historico[Len(novo_excel.historico)])]

\* upload_overwrite with WriteMode.overwrite: the stored workbook is
\* replaced, whatever it holds.
upload_overwrite(novo_excel, stored) == novo_excel

\* An upload failure handled by showing the success message.
UploadFalhouCalado(s) ==
    /\ pc' = [pc EXCEPT ![s] = "done"]
    /\ msg' = [msg EXCEPT ![s] = Msg("ok")]
    /\ UNCHANGED remote

\* Lines 213-215: the upload raised; st.error, st.exception, and the run
\* goes on to draw the dashboard.  The stored workbook is untouched.
UploadFalhou(s) ==
    /\ pc' = [pc EXCEPT ![s] = "done"]
    /\ msg' = [msg EXCEPT ![s] = Msg("err_upload")]
    /\ UNCHANGED remote

\* Lines 210-212: the upload returned; st.success, st.rerun().
UploadOk(s, novo_excel) ==
    /\ pc' = [pc EXCEPT ![s] = "rerun"]
    /\ msg' = [msg EXCEPT ![s] = Msg("ok")]
    /\ remote' = upload_overwrite(novo_excel, remote)

\* Lines 204-215: the movement is applied to the tables in memory, the
\* workbook is generated and uploaded once (net = the upload succeeds).
Aceitar(s, item, movimento, qtd, atual, now, net) ==
    LET novo == Novo(movimento, qtd, atual)
        novo_df == SetQuantidade(df[s], item, novo)
        novo_hist == registrar_movimento(hist[s], Strftime(now), Strip(usuario[s]),
                                         item, movimento, qtd, novo)
    IN /\ df' = [df EXCEPT ![s] = novo_df]
       /\ hist' = [hist EXCEPT ![s] = novo_hist]
       /\ uploads' = [uploads EXCEPT ![s] = uploads[s] + 1]
       /\ IF net THEN UploadOk(s, gerar_excel_bytes(novo_df, novo_hist))
                 ELSE UploadFalhou(s)

\* Lines 196-202: a rejected submission reports and changes no table.
Rejeitar(s, m) ==
    /\ pc' = [pc EXCEPT ![s] = "done"]
    /\ msg' = [msg EXCEPT ![s] = m]
    /\ UNCHANGED <<remote, df, hist, uploads>>

\* Lines 194-215: the "Aplicar movimento" button was pressed with item, a
\* direction and a quantity chosen in the form, at minute now.
Aplicar(s, item, movimento, qtd, now, net) ==
    /\ pc[s] = "loaded"
    /\ item \in ItemOptions(df[s])
    /\ Len(hist[s]) < BaseLen + AppLimit
    /\ movimento = "ENTRADA" => Atual(df[s], item) + qtd <= MaxEstoque
    /\ IF NomeVazio(usuario[s])
       THEN Rejeitar(s, Msg("err_nome"))
       ELSE LET atual == Atual(df[s], item) IN
            IF Insuficiente(movimento, qtd, atual)
            THEN Rejeitar(s, [kind |-> "err_insuf", atual |-> atual])
            ELSE Aceitar(s, item, movimento, qtd, atual, now, net)
    /\ UNCHANGED <<base, original_bytes, usuario>>

\* The button pressed with any choice the form offers.
AplicarMovimento(s) ==
    \E item \in ItemOptions(df[s]), movimento \in Movimentos,
       qtd \in MinQtd..MaxQtd, now \in Minutes, net \in BOOLEAN :
        Aplicar(s, item, movimento, qtd, now, net)

\* A script run starts: download and decode, with either outcome.
Carregar(s) ==
    \/ \E net \in BOOLEAN : CarregarFalha(s, net)
    \/ \E u \in Names : CarregarOk(s, u)

Next ==
    \E s \in Sessions :
         \/ Carregar(s)
         \/ Renderizar(s)
         \/ AplicarVazio(s)
         \/ AplicarMovimento(s)

Spec == Init /\ [][Next]_vars

\* ------------------------------------------------------------ properties
IsPrefix(a, b) == Len(a) <= Len(b) /\ SubSeq(b, 1, Len(a)) = a

\* The tables a workbook decodes to (none when it cannot be decoded).
TablesOf(file) ==
    IF FormatError(file) THEN [df |-> <<>>, hist |-> <<>>] ELSE ler_dados(file)

\* Every pair of tables that exists: each session's and the stored ones.
Views == {[df |-> df[s], hist |-> hist[s]] : s \in Sessions} \cup {TablesOf(remote)}

\* The records added to a history since the system started.
Appended(h) == SubSeq(h, BaseLen + 1, Len(h))

\* Sum of the quantities of the records of h for item with direction mov.
RECURSIVE SumQ(_, _, _)
SumQ(h, item, mov) ==
    IF h = <<>> THEN 0
    ELSE (IF Head(h).Item = item /\ Head(h).Movimento = mov THEN Head(h).Quantidade ELSE 0)
         + SumQ(Tail(h), item, mov)

\* Positions of the added records of h that are about item.
AppendedAt(h, item) == {i \in (BaseLen + 1)..Len(h) : h[i].Item = item}

Max(S) == CHOOSE x \in S : \A y \in S : y <= x

\* C1: ledger conservation.  In every pair of tables (a session's or the
\* stored workbook's) the quantity the code reads for an item equals the
\* quantity it had in the workbook the system started with, plus the ENTRADA
\* quantities and minus the SAIDA quantities of the records added since.
C1_Conservation ==
    \A v \in Views : \A item \in ItemOptions(v.df) :
        Atual(v.df, item) =
            Atual(TablesOf(base).df, item)
            + SumQ(Appended(v.hist), item, "ENTRADA")
            - SumQ(Appended(v.hist), item, "SAIDA")

\* A session has added an ENTRADA and a SAIDA of different sizes for one
\* item over two runs, and the quantity of the item moved.
C1_Witness ==
    \E s \in Sessions : \E item \in ItemOptions(df[s]) :
        /\ Len(hist[s]) = BaseLen + 2
        /\ SumQ(Appended(hist[s]), item, "ENTRADA") > 0
        /\ SumQ(Appended(hist[s]), item, "SAIDA") > 0
        /\ Atual(df[s], item) # Atual(TablesOf(base).df, item)

\* C2: in every pair of tables, for every item with at least one added
\* record, the Estoque_Apos of the last added record for the item equals
\* the item's current Quantidade.
C2_LastBalance ==
    \A v \in Views : \A item \in ItemOptions(v.df) :
        AppendedAt(v.hist, item) # {} =>
            v.hist[Max(AppendedAt(v.hist, item))].Estoque_Apos = Atual(v.df, item)

\* The stored workbook holds two added records for one item with different
\* balances, and a session has loaded it.
C2_Witness ==
    \E s \in Sessions : \E item \in ItemOptions(df[s]) :
        /\ pc[s] = "loaded"
        /\ Cardinality(AppendedAt(hist[s], item)) = 2
        /\ hist[s][Len(hist[s])].Estoque_Apos # hist[s][Len(hist[s]) - 1].Estoque_Apos
        /\ TablesOf(remote).hist = hist[s]

\* What a pressed button with a non-empty name and direction SAIDA does.
SaidaStep(s, item, qtd) ==
    /\ ~NomeVazio(usuario[s])
    /\ \E now \in Minutes, net \in BOOLEAN : Aplicar(s, item, "SAIDA", qtd, now, net)

\* C3: a SAIDA larger than the current quantity is rejected, the current
\* quantity is reported, and tables, stored workbook and upload count are
\* untouched; any other SAIDA (qtd = current included) is accepted and
\* leaves the item at current - qtd, with that balance recorded.
C3_Saida ==
    [][\A s \in Sessions : \A item \in ItemOptions(df[s]) : \A qtd \in MinQtd..MaxQtd :
          SaidaStep(s, item, qtd) =>
              LET atual == Atual(df[s], item) IN
              IF qtd > atual
              THEN /\ msg'[s] = [kind |-> "err_insuf", atual |-> atual]
                   /\ df' = df /\ hist' = hist /\ remote' = remote
                   /\ uploads'[s] = 0
              ELSE /\ Atual(df'[s], item) = atual - qtd
                   /\ Len(hist'[s]) = Len(hist[s]) + 1
                   /\ hist'[s][Len(hist'[s])].Estoque_Apos = atual - qtd
                   /\ msg'[s].kind \in {"ok", "err_upload"}]_vars

\* A SAIDA of the whole quantity (qtd = current = 2) was accepted and
\* stored with balance 0, and the next SAIDA on the item was refused with
\* current quantity 0 reported.
C3_Witness ==
    \E s \in Sessions :
        /\ msg[s] = [kind |-> "err_insuf", atual |-> 0]
        /\ hist[s] = TablesOf(remote).hist
        /\ Len(hist[s]) > BaseLen
        /\ hist[s][Len(hist[s])].Movimento = "SAIDA"
        /\ hist[s][Len(hist[s])].Quantidade = 2
        /\ hist[s][Len(hist[s])].Estoque_Apos = 0

\* Every row of item in df has a quantity >= 0.
NonNegRows(d, item) == \A i \in Matching(d, item) : d[i].Quantidade >= 0

\* C4 as stated: no quantity of a session's stock table and no Estoque_Apos
\* of a record it added is ever negative.
C4_Original ==
    \A s \in Sessions :
        /\ \A i \in 1..Len(df[s]) : df[s][i].Quantidade >= 0
        /\ \A i \in (BaseLen + 1)..Len(hist[s]) : hist[s][i].Estoque_Apos >= 0

\* C4 amended: for every item whose rows were all >= 0 in the workbook the
\* system started with (after decode's coercion), every row of the item
\* stays >= 0 and every added record for it has Estoque_Apos >= 0.
C4_NonNegative ==
    \A v \in Views : \A item \in ItemOptions(v.df) :
        NonNegRows(TablesOf(base).df, item) =>
            /\ NonNegRows(v.df, item)
            /\ \A i \in AppendedAt(v.hist, item) : v.hist[i].Estoque_Apos >= 0

\* An item that started positive was taken to exactly 0 by SAIDA records
\* alone, over two runs.
C4_Witness ==
    \E s \in Sessions : \E item \in ItemOptions(df[s]) :
        /\ Atual(TablesOf(base).df, item) > 0
        /\ Atual(df[s], item) = 0
        /\ Cardinality(AppendedAt(hist[s], item)) = 2
        /\ \A i \in AppendedAt(hist[s], item) : hist[s][i].Movimento = "SAIDA"

\* C5 as stated: across every step, each session's history and the stored
\* history change only by adding records at the end.  The step compared is
\* one after which the session has tables (a halted run has none), and the
\* stored history is compared as decode reads it.
C5_Original ==
    [][/\ \A s \in Sessions :
            pc[s] \in {"loaded", "done", "rerun"} /\ pc'[s] \in {"loaded", "done", "rerun"}
                => IsPrefix(hist[s], hist'[s])
       /\ IsPrefix(TablesOf(remote).hist, TablesOf(remote').hist)]_vars

\* The history part of what session s uploaded: what it decoded from the
\* workbook it downloaded, followed by one record.
OneMore(h, h2) == Len(h2) = Len(h) + 1 /\ IsPrefix(h, h2)

\* C5 amended: the button handler leaves the session's history as it is or
\* adds exactly one record at its end; a change of the stored workbook
\* stores the history some session decoded from its download followed by
\* exactly one record; and the records of the workbook the system started
\* with stay, as decode reads them, at the front of every history.  (Added
\* records are not protected: a run after a failed upload re-reads the
\* stored history, and an upload replaces whatever other sessions stored.)
C5_AppendOnly ==
    /\ [](\A v \in Views :
            v.df # <<>> => IsPrefix(TablesOf(base).hist, v.hist))
    /\ [][/\ \A s \in Sessions :
               pc[s] = "loaded" => hist'[s] = hist[s] \/ OneMore(hist[s], hist'[s])
          /\ remote' # remote =>
               \E s \in Sessions :
                  /\ TablesOf(remote').hist = hist'[s]
                  /\ OneMore(TablesOf(original_bytes[s]).hist, hist'[s])]_vars

\* A session holds the starting history (not empty) followed by two records
\* it added in two runs, all stored.
C5_Witness ==
    \E s \in Sessions :
        /\ BaseLen > 0
        /\ Len(hist[s]) = BaseLen + 2
        /\ TablesOf(remote).hist = hist[s]

\* C6: when two sessions downloaded the same workbook and each had a
\* movement accepted and uploaded, both were told "ok", the stored workbook
\* is exactly what one of them uploaded, and its history holds one added
\* record, not two.
C6_LostUpdate ==
    \A a \in Sessions : \A b \in Sessions \ {a} :
        (/\ pc[a] = "rerun" /\ pc[b] = "rerun"
         /\ original_bytes[a] = original_bytes[b])
        => /\ msg[a].kind = "ok" /\ msg[b].kind = "ok"
           /\ remote \in {gerar_excel_bytes(df[a], hist[a]),
                          gerar_excel_bytes(df[b], hist[b])}
           /\ Len(TablesOf(remote).hist) = Len(TablesOf(original_bytes[a]).hist) + 1

\* Two sessions downloaded the same workbook, one stored an ENTRADA and the
\* other a SAIDA; the stored workbook is the second one's, and the first
\* one's record and quantity are not in it.
C6_Witness ==
    \E a \in Sessions : \E b \in Sessions \ {a} :
        /\ pc[a] = "rerun" /\ pc[b] = "rerun"
        /\ original_bytes[a] = original_bytes[b]
        /\ hist[a][Len(hist[a])].Movimento = "ENTRADA"
        /\ hist[b][Len(hist[b])].Movimento = "SAIDA"
        /\ remote = gerar_excel_bytes(df[b], hist[b])
        /\ \A i \in 1..Len(TablesOf(remote).hist) :
              TablesOf(remote).hist[i] # hist[a][Len(hist[a])]
        /\ TablesOf(remote).df # df[a]

\* A pressed button whose movement passes both checks, with the upload
\* failing.
AceitoSemRede(s, item, movimento, qtd) ==
    /\ ~NomeVazio(usuario[s])
    /\ ~Insuficiente(movimento, qtd, Atual(df[s], item))
    /\ \E now \in Minutes : Aplicar(s, item, movimento, qtd, now, FALSE)

\* C7: when the upload fails after an accepted movement, the session's
\* tables hold the movement (new quantity, one more record carrying it),
\* the stored workbook is unchanged, the failure message is shown, and the
\* run ends with upload_overwrite called once; no run calls it twice.
C7_UploadFailure ==
    /\ [](\A s \in Sessions : uploads[s] <= 1)
    /\ [][\A s \in Sessions : \A item \in ItemOptions(df[s]) :
          \A movimento \in Movimentos : \A qtd \in MinQtd..MaxQtd :
            AceitoSemRede(s, item, movimento, qtd) =>
               /\ msg'[s].kind = "err_upload"
               /\ remote' = remote
               /\ Atual(df'[s], item) =
                     Atual(df[s], item) + (IF movimento = "ENTRADA" THEN qtd ELSE -qtd)
               /\ OneMore(hist[s], hist'[s])
               /\ hist'[s][Len(hist'[s])].Item = item
               /\ hist'[s][Len(hist'[s])].Movimento = movimento
               /\ hist'[s][Len(hist'[s])].Quantidade = qtd
               /\ hist'[s][Len(hist'[s])].Estoque_Apos = Atual(df'[s], item)
               /\ uploads'[s] = 1
               /\ pc'[s] = "done"]_vars

\* A run ended with the failure message: its tables hold a record and a
\* quantity that the stored workbook does not.
C7_Witness ==
    \E s \in Sessions :
        /\ pc[s] = "done"
        /\ msg[s].kind = "err_upload"
        /\ OneMore(TablesOf(remote).hist, hist[s])
        /\ SortByItem(df[s]) # SortByItem(TablesOf(remote).df)
        /\ uploads[s] = 1

\* C8 as stated: in the stock table of every session, as decoded and after
\* every movement, no two rows have the same Item.
C8_UniqueItems ==
    \A s \in Sessions : \A i \in 1..Len(df[s]) : \A j \in 1..Len(df[s]) :
        df[s][i].Item = df[s][j].Item => i = j

\* C9: a run whose download or decode fails halts: it reports the error,
\* has no tables and has called no upload; the failing step leaves the
\* stored workbook as it is; a run on a workbook that cannot be decoded
\* never gets past the halt; and the next step of a halted session is the
\* start of a new run, never the button handler.
C9_Halt ==
    /\ [](\A s \in Sessions :
            pc[s] = "halted" =>
               /\ msg[s].kind = "err_open"
               /\ df[s] = <<>> /\ hist[s] = <<>>
               /\ uploads[s] = 0)
    /\ [][\A s \in Sessions :
            /\ msg'[s].kind = "err_open" => pc'[s] = "halted"
            /\ (pc[s] # "halted" /\ pc'[s] = "halted") => remote' = remote
            /\ (CanRun(s) /\ FormatError(remote) /\ pc'[s] # pc[s]) => pc'[s] = "halted"
            /\ (pc[s] = "halted" /\ pc'[s] # "halted") =>
                  /\ pc'[s] = "loaded"
                  /\ remote' = remote
                  /\ original_bytes'[s] = remote
                  /\ ~FormatError(remote)]_vars

\* A session downloaded a workbook that has no Quantidade column and
\* halted; the workbook is stored as it was.
C9_Witness ==
    \E s \in Sessions :
        /\ pc[s] = "halted"
        /\ original_bytes[s] = FileNoCol
        /\ remote = FileNoCol

\* Whether the button handler ran in this step of session s.
Pressed(s) == AplicarVazio(s) \/ AplicarMovimento(s)

\* C10: a pressed button with a name that is empty after trimming reports
\* the missing name and changes neither the session's tables nor the stored
\* workbook nor the upload count, also when the stock table has no rows;
\* and every added record, in memory or stored, has a Usuario that is not
\* empty and has no surrounding blanks.
C10_Usuario ==
    /\ [](\A v \in Views : \A i \in (BaseLen + 1)..Len(v.hist) :
            v.hist[i].Usuario # <<>> /\ Strip(v.hist[i].Usuario) = v.hist[i].Usuario)
    /\ [][\A s \in Sessions :
            (Pressed(s) /\ Strip(usuario[s]) = <<>>) =>
               /\ msg'[s].kind = "err_nome"
               /\ df' = df /\ hist' = hist /\ remote' = remote
               /\ uploads'[s] = 0]_vars

\* A name of blanks only was refused, and a record typed as " a" is stored
\* as "a".
C10_Witness ==
    \E s \in Sessions :
        /\ msg[s].kind = "err_nome"
        /\ usuario[s] = <<" ">>
        /\ Len(TablesOf(remote).hist) > BaseLen
        /\ TablesOf(remote).hist[BaseLen + 1].Usuario = <<"a">>

====
